---- MODULE Spec2Model ----
(***************************************************************************)
(* Model of iqm_resolution_archiver.py: the crawl loop of main, the        *)
(* per-document pipeline IqmScraper.get_resolution (error-page check,      *)
(* Meeting History / vote-record parsing, identity resolution against the  *)
(* people / voteTypes caches, PersonVote / ResolutionVote construction)    *)
(* and the SQLAlchemy session it writes to (pending objects, autoflush on  *)
(* query, commit, rollback on a failed flush).                             *)
(***************************************************************************)
EXTENDS Integers, Sequences, FiniteSets, TLC

VARIABLES
    config,                      \* config["resolution_range"]: [start, stop, step]
    run,                         \* 1: first invocation of main, 2: the re-run
    pc,                          \* position in main / get_resolution
    cursor,                      \* next value the range iterator will yield
    resolution_id,               \* main's loop variable (-1 before the loop)
    recorded_resolution_ids,     \* ids loaded from the store before the loop
    db,                          \* committed content of the store
    tx,                          \* what the session's open transaction sees
    session,                     \* pending (added, unflushed) objects + state
    people_name_to_id,           \* IqmScraper.people_name_to_id
    custom_vote_type_name_to_id, \* IqmScraper.custom_vote_type_name_to_id
    source,                      \* documents the portal has served, by id
    doc,                         \* the document get_resolution is parsing
    resolution,                  \* the Resolution under construction
    index,                       \* index of the vote record being processed
    voting_entry,                \* normalised vote record
    must_refresh_people,
    must_refresh_vote_types,
    exc,                         \* exception in flight / caught ("none" if none)
    reported,                    \* id printed by the except clause (None: NoId)
    crashed,                     \* main left by an exception of the final commit
    commits,                     \* successful commits of this run
    since_commit,                \* ids yielded by the range since the last commit
    attempted,                   \* ids yielded by the range in this run
    fetched,                     \* ids fetched in this run
    staged,                      \* ids whose aggregate main added in this run
    first_run_db,                \* store content when the first run ended
    call,                        \* a helper of get_resolution applied on its own
    result                       \* what that helper left

vars == <<config, run, pc, cursor, resolution_id, recorded_resolution_ids, db, tx,
          session, people_name_to_id, custom_vote_type_name_to_id, source, doc,
          resolution, index, voting_entry, must_refresh_people,
          must_refresh_vote_types, exc, reported, crashed, commits, since_commit,
          attempted, fetched, staged, first_run_db, call, result>>

----------------------------------------------------------------------------
(* Bounds and input sets *)

MaxRecords == 1          \* vote-record tables per document
MaxLen == 4              \* characters of a field value given to split
MaxCells == 2            \* th / td cells of the Information table
RangeLen == 2            \* ids the configured range yields
CadenceStop == 2003      \* stop of the long range used for the commit cadence

NoId == -1
EmptyName == ""

Max(S) == IF S = {} THEN 0 ELSE CHOOSE m \in S : \A x \in S : x <= m

Range(f) == {f[i] : i \in DOMAIN f}

----------------------------------------------------------------------------
(* Documents served by the portal.  A string field is modelled by the list *)
(* of tokens that str.split(", ") separates: the text is the tokens joined *)
(* with ", ", and the empty text is the empty list of tokens.              *)

ERR_RES == <<"The requested Document could not be retrieved.",
             "Access Denied You do not have permissions to view">>

Row(l, v) == [label |-> l, value |-> v]

\* <table class="VoteRecord"> contents: rows of <td>label</td><td>value</td>
VoteRecordTables ==
    { <<Row("Result:", <<"Passed">>), Row("Mover:", <<"A", "Councilmember">>),
        Row("Seconder:", <<"B">>), Row("AYES:", <<"A", "B">>)>>,
      <<Row("Result:", <<"Passed">>), Row("Mover:", <<"B">>),
        Row("AYES:", <<"A">>), Row("NAYS:", <<"A">>)>>,
      <<Row("Result:", <<"Passed">>), Row("Mover:", <<"A">>),
        Row("AYES:", <<"B", "B">>)>>,
      <<Row("Result:", <<"Passed">>), Row("AYES:", <<"A">>)>>,
      <<Row("Mover:", <<"B">>), Row("AYES:", <<"A">>)>>,
      <<Row("Result:", <<"Failed">>), Row("Mover:", <<"A">>),
        Row("AYES:", <<>>), Row("Nays:", <<"A">>)>>,
      <<Row("Result:", <<"Tabled">>), Row("Mover:", <<"B">>)>> }

SeqsUpTo(S, n) == UNION {[1..k -> S] : k \in 0..n}

\* page_res.text as far as the code looks at it: the ERR_RES phrases the text
\* contains, whether the required elements (lblResNum, lblLegiFileType,
\* lblLegiFileTitle, tblLegiFileInfo, divDiscussion) are all there, whether
\* there is a MeetingHistory table, and its header rows and vote records.
Document(t, e, m, h, v) ==
    [text |-> t, elements |-> e, meeting_history |-> m,
     header_rows |-> h, voting_records |-> v]

ErrorPages == {Document({ERR_RES[i]}, FALSE, FALSE, 0, <<>>) : i \in DOMAIN ERR_RES}

Docs ==
    ErrorPages
    \cup {Document({}, FALSE, FALSE, 0, <<>>), Document({}, TRUE, FALSE, 0, <<>>)}
    \cup {Document({}, TRUE, TRUE, h, v) :
            h \in 0..(MaxRecords + 1), v \in SeqsUpTo(VoteRecordTables, MaxRecords)}

----------------------------------------------------------------------------
(* Pure helpers of get_resolution *)

\* mutant: only the first phrase of ERR_RES is looked for
IsErrResponse_FirstOnly(text) == ERR_RES[1] \in text

\* any(err in page_res.text for err in IqmScraper.ERR_RES)
IsErrResponse(text) == \E i \in DOMAIN ERR_RES : ERR_RES[i] \in text

\* cols[0].text.replace(":", "").lower()
FieldName(label) ==
    CASE label = "Result:" -> "result"
      [] label = "Mover:" -> "mover"
      [] label = "Seconder:" -> "seconder"
      [] label = "AYES:" -> "ayes"
      [] label = "NAYS:" -> "nays"
      [] label = "Nays:" -> "nays"

\* field_value.split(", "): the empty string splits into one empty token
Split(value) == IF value = <<>> THEN <<EmptyName>> ELSE value

\* d[key] = val on an insertion-ordered dict kept as a sequence of items
DictSet(items, key, val) ==
    IF \E i \in DOMAIN items : items[i].key = key
    THEN [i \in DOMAIN items |->
            IF items[i].key = key THEN [key |-> key, val |-> val] ELSE items[i]]
    ELSE Append(items, [key |-> key, val |-> val])

EmptyVotingEntry ==
    [has_result |-> FALSE, result |-> <<>>, has_mover |-> FALSE, mover |-> EmptyName,
     custom_vote_types |-> <<>>]

\* the body of "for row in voting_record.find_all('tr')" for one row
NormalizeRow(entry, row) ==
    LET field_name == FieldName(row.label)
        field_value == row.value
    IN  CASE field_name = "result" ->
               [entry EXCEPT !.has_result = TRUE, !.result = field_value]
          [] field_name = "mover" ->
               [entry EXCEPT !.has_mover = TRUE, !.mover = Head(Split(field_value))]
          [] field_name = "seconder" -> entry
          [] OTHER ->
               [entry EXCEPT !.custom_vote_types =
                    DictSet(@, field_name, Split(field_value))]

RECURSIVE NormalizeRows(_, _)
NormalizeRows(entry, rows) ==
    IF rows = <<>> THEN entry
    ELSE NormalizeRows(NormalizeRow(entry, Head(rows)), Tail(rows))

\* the voting_entry the row loop leaves for one vote-record table
Normalize(voting_record) == NormalizeRows(EmptyVotingEntry, voting_record)

\* voters of all buckets, in the order the nested loops visit them
RECURSIVE AllVoters(_)
AllVoters(items) ==
    IF items = <<>> THEN <<>> ELSE Head(items).val \o AllVoters(Tail(items))

----------------------------------------------------------------------------
(* The store (people, voteTypes, resolutions tables) and the session *)

EmptyStore == [people |-> {}, voteTypes |-> {}, resolutions |-> {}]

EmptySession ==
    [active |-> TRUE, people |-> <<>>, vote_types |-> <<>>, resolutions |-> <<>>]

NamesOf(rows) == {r.name : r \in rows}
IdsOf(rows) == {r.id : r \in rows}

\* INSERT of new rows into a table with an autoincrement primary key
RECURSIVE InsertNamed(_, _)
InsertNamed(rows, names) ==
    IF names = <<>> THEN rows
    ELSE InsertNamed(rows \cup {[id |-> Max(IdsOf(rows)) + 1, name |-> Head(names)]},
                     Tail(names))

HasDuplicates(seq) == \E i, j \in DOMAIN seq : i # j /\ seq[i] = seq[j]

\* PersonVote's primary key is (person_id, resolution_vote_id)
VoteKeysUnique(vote) ==
    ~HasDuplicates([i \in DOMAIN vote.person_votes |-> vote.person_votes[i].person_id])

\* whether the database accepts the INSERTs of a flush: people.name is unique,
\* resolutions.id and personVotes (person_id, resolution_vote_id) are primary keys
FlushAccepted(store, sess) ==
    /\ ~HasDuplicates(sess.people)
    /\ Range(sess.people) \cap NamesOf(store.people) = {}
    /\ ~HasDuplicates([i \in DOMAIN sess.resolutions |-> sess.resolutions[i].id])
    /\ \A i \in DOMAIN sess.resolutions :
          /\ sess.resolutions[i].id \notin IdsOf(store.resolutions)
          /\ \A k \in DOMAIN sess.resolutions[i].votes :
                VoteKeysUnique(sess.resolutions[i].votes[k])

\* the rows of the transaction after a successful flush of the pending objects
Flushed(store, sess) ==
    [people |-> InsertNamed(store.people, sess.people),
     voteTypes |-> InsertNamed(store.voteTypes, sess.vote_types),
     resolutions |-> store.resolutions \cup Range(sess.resolutions)]

\* Session.flush(), as run by the autoflush of a query: on success the pending
\* objects become rows of the transaction; on an IntegrityError the transaction
\* is rolled back to the last commit, the pending objects are expunged and the
\* session stays inactive until rollback() is called (which main never does)
Flush(committed, store, sess) ==
    IF ~sess.active
    THEN [ok |-> FALSE, error |-> "PendingRollbackError", tx |-> store, session |-> sess]
    ELSE IF FlushAccepted(store, sess)
    THEN [ok |-> TRUE, error |-> "none", tx |-> Flushed(store, sess),
          session |-> EmptySession]
    ELSE [ok |-> FALSE, error |-> "IntegrityError", tx |-> committed,
          session |-> [EmptySession EXCEPT !.active = FALSE]]

\* {row.name: row.id for row in session.query(T).all()}: later rows win
NameToId(rows) ==
    [n \in NamesOf(rows) |-> Max({r.id : r \in {q \in rows : q.name = n}})]

\* self.database_session.add(Person(name=name))
add_person(sess, name) == [sess EXCEPT !.people = Append(@, name)]

\* self.database_session.add(VoteType(name=name))
add_custom_vote_type(sess, name) == [sess EXCEPT !.vote_types = Append(@, name)]

\* mutant: no flush; the cache is filled from the pending objects with the ids
\* they are expected to get
refresh_people_NoFlush(committed, store, sess, cache) ==
    [ok |-> TRUE, error |-> "none", tx |-> store, session |-> sess,
     cache |-> [n \in DOMAIN cache \cup Range(sess.people) |->
                  IF n \in DOMAIN cache THEN cache[n]
                  ELSE Max(IdsOf(store.people))
                       + (CHOOSE i \in DOMAIN sess.people : sess.people[i] = n)]]

\* refresh_people: the query autoflushes, then the cache is rebuilt from all rows
refresh_people(committed, store, sess, cache) ==
    LET f == Flush(committed, store, sess)
    IN  f @@ [cache |-> IF f.ok THEN NameToId(f.tx.people) ELSE cache]

\* refresh_custom_vote_types, likewise for the voteTypes table
refresh_custom_vote_types(committed, store, sess, cache) ==
    LET f == Flush(committed, store, sess)
    IN  f @@ [cache |-> IF f.ok THEN NameToId(f.tx.voteTypes) ELSE cache]

\* database_session.commit(): flush, then make the transaction durable.  A flush
\* that fails inside commit() rolls the session back completely, so the session
\* is usable (and empty) afterwards; commit() on an inactive session raises.
Commit(committed, store, sess) ==
    LET f == Flush(committed, store, sess)
    IN  IF f.ok THEN f @@ [db |-> f.tx]
        ELSE IF f.error = "IntegrityError"
        THEN [f EXCEPT !.session = EmptySession] @@ [db |-> committed]
        ELSE f @@ [db |-> committed]

----------------------------------------------------------------------------
(* Configurations and initial stores *)

Configs ==
    {[start |-> s, stop |-> s + st * RangeLen, step |-> st] :
        s \in {999, 1000}, st \in {1, 2}}

NewResolution(id) == [id |-> id, meetings |-> 0, votes |-> <<>>]

InitialStores ==
    { EmptyStore,
      [people |-> {[id |-> 1, name |-> "A"]},
       voteTypes |-> {[id |-> 1, name |-> "ayes"]},
       resolutions |-> {NewResolution(1000)}] }

NoDoc == Document({}, FALSE, FALSE, 0, <<>>)
NoResolution == NewResolution(NoId)

\* mutant: the persisted ids are not loaded
RecordedIds_None(rows) == {}

\* [res_id for (res_id,) in database_session.query(Resolution.id).all()]
RecordedIds(rows) == IdsOf(rows.resolutions)

\* no helper is being applied on its own
NoCall == [fn |-> "none", arg |-> <<>>]
NoResult == [done |-> FALSE, value |-> <<>>]

\* state of a fresh process: IqmScraper.__init__ and main up to the loop
ProcessStart(rows, cfg) ==
    /\ pc = "loop"
    /\ cursor = cfg.start
    /\ resolution_id = -1
    /\ recorded_resolution_ids = RecordedIds(rows)
    /\ tx = rows
    /\ session = EmptySession
    /\ people_name_to_id = NameToId(rows.people)
    /\ custom_vote_type_name_to_id = NameToId(rows.voteTypes)
    /\ doc = NoDoc
    /\ resolution = NoResolution
    /\ index = 0
    /\ voting_entry = EmptyVotingEntry
    /\ must_refresh_people = FALSE
    /\ must_refresh_vote_types = FALSE
    /\ exc = "none"
    /\ reported = NoId
    /\ crashed = FALSE
    /\ commits = 0
    /\ since_commit = 0
    /\ attempted = {}
    /\ fetched = {}
    /\ staged = {}

Init ==
    /\ config \in Configs
    /\ db \in InitialStores
    /\ run = 1
    /\ source = <<>>
    /\ first_run_db = EmptyStore
    /\ call = NoCall
    /\ result = NoResult
    /\ ProcessStart(db, config)

locals == <<doc, resolution, index, voting_entry, must_refresh_people,
            must_refresh_vote_types>>
caches == <<people_name_to_id, custom_vote_type_name_to_id>>
store == <<db, tx, session>>
loopstate == <<cursor, resolution_id, recorded_resolution_ids>>
ghosts == <<commits, since_commit, attempted, fetched, staged>>
fixed == <<config, run, first_run_db, call, result>>

\* leaving get_resolution drops its frame
DropLocals ==
    /\ doc' = NoDoc
    /\ resolution' = NoResolution
    /\ index' = 0
    /\ voting_entry' = EmptyVotingEntry
    /\ must_refresh_people' = FALSE
    /\ must_refresh_vote_types' = FALSE

\* an exception leaves get_resolution and the for loop for the except clause
Raise(e) ==
    /\ exc' = e
    /\ pc' = "except"
    /\ DropLocals

----------------------------------------------------------------------------
(* main: the crawl loop *)

\* for resolution_id in range(...): the range is exhausted
Main_Exhausted ==
    /\ pc = "loop"
    /\ cursor >= config.stop
    /\ pc' = "finally"
    /\ UNCHANGED <<fixed, loopstate, store, caches, source, locals, exc, reported,
                   crashed, ghosts>>

\* "if resolution_id in recorded_resolution_ids: continue"
Main_Skip ==
    /\ pc = "loop"
    /\ cursor < config.stop
    /\ cursor \in recorded_resolution_ids
    /\ resolution_id' = cursor
    /\ cursor' = cursor + config.step
    /\ since_commit' = since_commit + 1
    /\ attempted' = attempted \cup {cursor}
    /\ UNCHANGED <<fixed, pc, recorded_resolution_ids, store, caches, source, locals,
                   exc, reported, crashed, commits, fetched, staged>>

\* the loop yields an id that is not recorded yet
Main_Visit ==
    /\ pc = "loop"
    /\ cursor < config.stop
    /\ cursor \notin recorded_resolution_ids
    /\ resolution_id' = cursor
    /\ cursor' = cursor + config.step
    /\ since_commit' = since_commit + 1
    /\ attempted' = attempted \cup {cursor}
    /\ pc' = "cadence"
    /\ UNCHANGED <<fixed, recorded_resolution_ids, store, caches, source, locals,
                   exc, reported, crashed, commits, fetched, staged>>

COMMIT_EVERY == 1000
PRINT_EVERY == 10

\* "if resolution_id % 10 == 0: ... if resolution_id % 1000 == 0: commit()"
CommitDue(id) == id % PRINT_EVERY = 0 /\ id % COMMIT_EVERY = 0

Main_PeriodicCommit ==
    /\ pc = "cadence"
    /\ CommitDue(resolution_id)
    /\ LET c == Commit(db, tx, session)
       IN  /\ db' = c.db
           /\ tx' = c.tx
           /\ session' = c.session
           /\ IF c.ok
              THEN /\ pc' = "fetch"
                   /\ commits' = commits + 1
                   /\ since_commit' = 1
                   /\ UNCHANGED exc
              ELSE /\ pc' = "except"
                   /\ exc' = c.error
                   /\ UNCHANGED <<commits, since_commit>>
    /\ UNCHANGED <<fixed, loopstate, caches, source, locals, reported, crashed,
                   attempted, fetched, staged>>

Main_NoCommit ==
    /\ pc = "cadence"
    /\ ~CommitDue(resolution_id)
    /\ pc' = "fetch"
    /\ UNCHANGED <<fixed, loopstate, store, caches, source, locals, exc, reported,
                   crashed, ghosts>>

\* "if resolution_info: database_session.add(resolution_info)"
Main_Stage ==
    /\ pc = "stage"
    /\ session' = [session EXCEPT !.resolutions = Append(@, resolution)]
    /\ staged' = staged \cup {resolution.id}
    /\ pc' = "loop"
    /\ DropLocals
    /\ UNCHANGED <<fixed, loopstate, db, tx, caches, source, exc, reported, crashed,
                   commits, since_commit, attempted, fetched>>

\* mutant: the try statement sits inside the loop, which goes on after the print
Main_Except_Continue ==
    /\ pc = "except"
    /\ reported' = resolution_id
    /\ pc' = "loop"
    /\ UNCHANGED <<fixed, loopstate, store, caches, source, locals, exc, crashed,
                   ghosts>>

\* "except BaseException as be: print(f'{resolution_id} - {be}')"
Main_Except ==
    /\ pc = "except"
    /\ reported' = resolution_id
    /\ pc' = "finally"
    /\ UNCHANGED <<fixed, loopstate, store, caches, source, locals, exc, crashed,
                   ghosts>>

\* "finally: database_session.commit()"
Main_Finally ==
    /\ pc = "finally"
    /\ LET c == Commit(db, tx, session)
       IN  /\ db' = c.db
           /\ tx' = c.tx
           /\ session' = c.session
           /\ crashed' = ~c.ok
           /\ commits' = IF c.ok THEN commits + 1 ELSE commits
           /\ first_run_db' = IF run = 1 THEN c.db ELSE first_run_db
    /\ pc' = "done"
    /\ UNCHANGED <<config, run, loopstate, caches, source, locals, exc, reported,
                   since_commit, attempted, fetched, staged, call, result>>

----------------------------------------------------------------------------
(* IqmScraper.get_resolution *)

\* self.session.get(...): the portal serves document d for this id; where the
\* portal's content is fixed in advance (source), it serves that document
Served(id, d) ==
    /\ d \in Docs
    /\ id \in DOMAIN source => d = source[id]

\* "if any(err in page_res.text ...): return": main sees None and goes on
GetResolution_ErrResponse ==
    /\ pc = "fetch"
    /\ \E d \in Docs :
          /\ Served(resolution_id, d)
          /\ IsErrResponse(d.text)
    /\ fetched' = fetched \cup {resolution_id}
    /\ pc' = "loop"
    /\ UNCHANGED <<fixed, loopstate, store, caches, source, locals, exc, reported,
                   crashed, commits, since_commit, attempted, staged>>

\* a required element is missing: safe_find raises
GetResolution_Malformed ==
    /\ pc = "fetch"
    /\ \E d \in Docs :
          /\ Served(resolution_id, d)
          /\ ~IsErrResponse(d.text)
          /\ ~d.elements
    /\ fetched' = fetched \cup {resolution_id}
    /\ Raise("Exception")
    /\ UNCHANGED <<fixed, loopstate, store, caches, source, reported, crashed,
                   commits, since_commit, attempted, staged>>

\* header, sections, Information, attachments, body, discussion are parsed and
\* the Meeting History table is looked up
GetResolution_Parse ==
    /\ pc = "fetch"
    /\ \E d \in Docs :
          /\ Served(resolution_id, d)
          /\ ~IsErrResponse(d.text)
          /\ d.elements
          /\ doc' = d
          /\ pc' = IF d.meeting_history THEN "record" ELSE "stage"
    /\ resolution' = NewResolution(resolution_id)
    /\ index' = 0
    /\ fetched' = fetched \cup {resolution_id}
    /\ UNCHANGED <<fixed, loopstate, store, caches, source, voting_entry,
                   must_refresh_people, must_refresh_vote_types, exc, reported,
                   crashed, commits, since_commit, attempted, staged>>

\* "for index in range(len(voting_records))" is over: return resolution
GetResolution_Return ==
    /\ pc = "record"
    /\ index >= Len(doc.voting_records)
    /\ pc' = "stage"
    /\ UNCHANGED <<fixed, loopstate, store, caches, source, locals, exc, reported,
                   crashed, ghosts>>

\* resolution.meetings.append(meeting)
AppendMeeting(res) == [res EXCEPT !.meetings = @ + 1]

\* header_rows[index], the ResolutionMeeting and the row loop of one record
GetResolution_ParseRecord ==
    /\ pc = "record"
    /\ index < Len(doc.voting_records)
    /\ IF index >= doc.header_rows
       THEN /\ Raise("IndexError")
       ELSE /\ resolution' = AppendMeeting(resolution)
            /\ voting_entry' = Normalize(doc.voting_records[index + 1])
            /\ must_refresh_people' = FALSE
            /\ must_refresh_vote_types' = FALSE
            /\ pc' = "mover"
            /\ UNCHANGED <<doc, index, exc>>
    /\ UNCHANGED <<fixed, loopstate, store, caches, source, reported, crashed, ghosts>>

\* "if voting_entry['mover'] not in self.people_name_to_id: add, refresh"
GetResolution_ResolveMover ==
    /\ pc = "mover"
    /\ IF ~voting_entry.has_mover
       THEN /\ Raise("KeyError")
            /\ UNCHANGED <<store, caches>>
       ELSE IF voting_entry.mover \in DOMAIN people_name_to_id
       THEN /\ pc' = "voters"
            /\ UNCHANGED <<store, caches, locals, exc>>
       ELSE LET r == refresh_people(db, tx, add_person(session, voting_entry.mover),
                                    people_name_to_id)
            IN  /\ tx' = r.tx
                /\ session' = r.session
                /\ people_name_to_id' = r.cache
                /\ UNCHANGED <<db, custom_vote_type_name_to_id>>
                /\ IF r.ok
                   THEN /\ must_refresh_people' = TRUE
                        /\ pc' = "voters"
                        /\ UNCHANGED <<doc, resolution, index, voting_entry,
                                       must_refresh_vote_types, exc>>
                   ELSE Raise(r.error)
    /\ UNCHANGED <<fixed, loopstate, source, reported, crashed, ghosts>>

\* "for voter in voters: if voter not in cache: add_person(voter)": the names
\* the loops add, in order (the cache is not refreshed inside the loops)
NewPeople(entry, cache) ==
    SelectSeq(AllVoters(entry.custom_vote_types), LAMBDA v : v \notin DOMAIN cache)

\* "for vote_type in keys(): if vote_type not in cache: add_custom_vote_type"
NewVoteTypes(entry, cache) ==
    LET keys == [i \in DOMAIN entry.custom_vote_types |-> entry.custom_vote_types[i].key]
    IN  SelectSeq(keys, LAMBDA k : k \notin DOMAIN cache)

GetResolution_ResolveVoters ==
    /\ pc = "voters"
    /\ LET people == NewPeople(voting_entry, people_name_to_id)
           types == NewVoteTypes(voting_entry, custom_vote_type_name_to_id)
       IN  /\ session' = [session EXCEPT !.people = @ \o people,
                                         !.vote_types = @ \o types]
           /\ must_refresh_people' = (must_refresh_people \/ people # <<>>)
           /\ must_refresh_vote_types' = (types # <<>>)
    /\ pc' = "refresh"
    /\ UNCHANGED <<fixed, loopstate, db, tx, caches, source, doc, resolution, index,
                   voting_entry, exc, reported, crashed, ghosts>>

\* "if must_refresh_people: refresh_people(); if must_refresh_vote_types: ..."
GetResolution_Refresh ==
    /\ pc = "refresh"
    /\ LET p == IF must_refresh_people
                THEN refresh_people(db, tx, session, people_name_to_id)
                ELSE [ok |-> TRUE, error |-> "none", tx |-> tx, session |-> session,
                      cache |-> people_name_to_id]
           v == IF p.ok /\ must_refresh_vote_types
                THEN refresh_custom_vote_types(db, p.tx, p.session,
                                               custom_vote_type_name_to_id)
                ELSE [ok |-> p.ok, error |-> p.error, tx |-> p.tx,
                      session |-> p.session, cache |-> custom_vote_type_name_to_id]
       IN  /\ tx' = v.tx
           /\ session' = v.session
           /\ people_name_to_id' = p.cache
           /\ custom_vote_type_name_to_id' = v.cache
           /\ IF v.ok
              THEN /\ pc' = "build"
                   /\ UNCHANGED <<locals, exc>>
              ELSE Raise(v.error)
    /\ UNCHANGED <<fixed, loopstate, db, source, reported, crashed, ghosts>>

\* the PersonVote list: one entry per voter of every bucket
RECURSIVE PersonVotes(_, _, _)
PersonVotes(items, people, types) ==
    IF items = <<>> THEN <<>>
    ELSE [i \in DOMAIN Head(items).val |->
             [person_id |-> people[Head(items).val[i]],
              vote_type_id |-> types[Head(items).key]]]
         \o PersonVotes(Tail(items), people, types)

\* every cache lookup of the build finds its key
LookupsDefined(entry, people, types) ==
    /\ Range(AllVoters(entry.custom_vote_types)) \subseteq DOMAIN people
    /\ \A i \in DOMAIN entry.custom_vote_types :
          entry.custom_vote_types[i].key \in DOMAIN types
    /\ entry.has_result
    /\ entry.mover \in DOMAIN people

\* mutant: a vote without voters is not appended
AppendVote_SkipEmpty(res, vote) ==
    IF vote.person_votes = <<>> THEN res ELSE [res EXCEPT !.votes = Append(@, vote)]

\* resolution.votes.append(new_vote)
AppendVote(res, vote) == [res EXCEPT !.votes = Append(@, vote)]

\* person_votes, ResolutionVote(...), resolution.votes.append(new_vote)
GetResolution_BuildVote ==
    /\ pc = "build"
    /\ IF ~LookupsDefined(voting_entry, people_name_to_id, custom_vote_type_name_to_id)
       THEN Raise("KeyError")
       ELSE /\ resolution' = AppendVote(resolution,
                  [result |-> voting_entry.result,
                   mover_id |-> people_name_to_id[voting_entry.mover],
                   person_votes |-> PersonVotes(voting_entry.custom_vote_types,
                                                people_name_to_id,
                                                custom_vote_type_name_to_id)])
            /\ index' = index + 1
            /\ pc' = "record"
            /\ UNCHANGED <<doc, voting_entry, must_refresh_people,
                           must_refresh_vote_types, exc>>
    /\ UNCHANGED <<fixed, loopstate, store, caches, source, reported, crashed, ghosts>>

----------------------------------------------------------------------------

Next ==
    \/ Main_Exhausted
    \/ Main_Skip
    \/ Main_Visit
    \/ Main_PeriodicCommit
    \/ Main_NoCommit
    \/ GetResolution_ErrResponse
    \/ GetResolution_Malformed
    \/ GetResolution_Parse
    \/ GetResolution_Return
    \/ GetResolution_ParseRecord
    \/ GetResolution_ResolveMover
    \/ GetResolution_ResolveVoters
    \/ GetResolution_Refresh
    \/ GetResolution_BuildVote
    \/ Main_Stage
    \/ Main_Except
    \/ Main_Finally

Spec == Init /\ [][Next]_vars

----------------------------------------------------------------------------
(* Resume: main is run a second time on the store the first run left, against *)
(* a portal whose documents are fixed                                         *)

ResumeConfigs ==
    { [start |-> 999, stop |-> 1001, step |-> 1],
      [start |-> 1000, stop |-> 1004, step |-> 2] }

RangeIds(cfg) == {i \in cfg.start..(cfg.stop - 1) : (i - cfg.start) % cfg.step = 0}

ResumeDocs ==
    {d \in Docs : d.meeting_history => d.header_rows \in {Len(d.voting_records) - 1,
                                                          Len(d.voting_records)}}

InitResume ==
    /\ config \in ResumeConfigs
    /\ db \in InitialStores
    /\ run = 1
    /\ source \in [RangeIds(config) -> ResumeDocs]
    /\ first_run_db = EmptyStore
    /\ call = NoCall
    /\ result = NoResult
    /\ ProcessStart(db, config)

\* a new process: a new session and scraper on the committed store
Main_Rerun ==
    /\ pc = "done"
    /\ run = 1
    /\ run' = 2
    /\ pc' = "loop"
    /\ cursor' = config.start
    /\ resolution_id' = -1
    /\ recorded_resolution_ids' = RecordedIds(db)
    /\ tx' = db
    /\ session' = EmptySession
    /\ people_name_to_id' = NameToId(db.people)
    /\ custom_vote_type_name_to_id' = NameToId(db.voteTypes)
    /\ exc' = "none"
    /\ reported' = NoId
    /\ crashed' = FALSE
    /\ commits' = 0
    /\ since_commit' = 0
    /\ attempted' = {}
    /\ fetched' = {}
    /\ staged' = {}
    /\ UNCHANGED <<config, db, source, first_run_db, locals, call, result>>

NextResume == Next \/ Main_Rerun

SpecResume == InitResume /\ [][NextResume]_vars

----------------------------------------------------------------------------
(* Cadence: a long range over a portal that serves only error pages *)

CadenceConfigs ==
    {[start |-> s, stop |-> CadenceStop, step |-> st] : s \in {1, 2}, st \in {1, 2}}

CadenceStores ==
    {EmptyStore, [EmptyStore EXCEPT !.resolutions = {NewResolution(COMMIT_EVERY)}]}

InitCadence ==
    /\ config \in CadenceConfigs
    /\ db \in CadenceStores
    /\ run = 1
    /\ source = [i \in RangeIds(config) |-> Document({ERR_RES[1]}, FALSE, FALSE, 0, <<>>)]
    /\ first_run_db = EmptyStore
    /\ call = NoCall
    /\ result = NoResult
    /\ ProcessStart(db, config)

NextCadence ==
    \/ Main_Exhausted
    \/ Main_Skip
    \/ Main_Visit
    \/ Main_PeriodicCommit
    \/ Main_NoCommit
    \/ GetResolution_ErrResponse
    \/ Main_Finally

SpecCadence == InitCadence /\ [][NextCadence]_vars

----------------------------------------------------------------------------
(* Vote normalizer: field_value.split(", ") on the characters of a value *)

Chars == {"a", "b", ",", " "}

FieldValues == SeqsUpTo(Chars, MaxLen)

\* str.split(", "): scan left to right; every ", " ends the current token,
\* the end of the string ends the last one (so "" gives one empty token)
RECURSIVE PySplitFrom(_, _)
PySplitFrom(s, token) ==
    IF s = <<>> THEN <<token>>
    ELSE IF Len(s) >= 2 /\ s[1] = "," /\ s[2] = " "
    THEN <<token>> \o PySplitFrom(SubSeq(s, 3, Len(s)), <<>>)
    ELSE PySplitFrom(Tail(s), Append(token, Head(s)))

PySplit(s) == PySplitFrom(s, <<>>)

\* a well-formed process state in which only the helper runs
HelperStart ==
    /\ config = [start |-> 0, stop |-> 0, step |-> 1]
    /\ db = EmptyStore
    /\ run = 1
    /\ source = <<>>
    /\ first_run_db = EmptyStore
    /\ ProcessStart(db, config)

InitNormalizer ==
    /\ call \in {[fn |-> "split", arg |-> v] : v \in FieldValues}
    /\ result = NoResult
    /\ HelperStart

\* voting_entry["custom_vote_types"][field_name] = field_value.split(", ")
GetResolution_SplitValue ==
    /\ call.fn = "split"
    /\ ~result.done
    /\ result' = [done |-> TRUE, value |-> PySplit(call.arg)]
    /\ UNCHANGED <<config, run, pc, loopstate, store, caches, source, locals, exc,
                   reported, crashed, ghosts, first_run_db, call>>

NextNormalizer == GetResolution_SplitValue

SpecNormalizer == InitNormalizer /\ [][NextNormalizer]_vars

----------------------------------------------------------------------------
(* Information section: the th and td cells of table tblLegiFileInfo *)

\* the text of a th cell
InfoHeaders == {"Department:", "Category:", "Functions:", "Sponsors:", "Status:"}

\* the text of a td cell, as characters
InfoValues == {<<>>, <<"a">>, <<"a", ",", " ", "b">>}

\* table_headers[index].text.replace(":", "").lower()
HeaderName(text) ==
    CASE text = "Department:" -> "department"
      [] text = "Category:" -> "category"
      [] text = "Functions:" -> "functions"
      [] text = "Sponsors:" -> "sponsors"
      [] text = "Status:" -> "status"

InformationTables ==
    { [headers |-> h, data |-> d] :
        h \in SeqsUpTo(InfoHeaders, MaxCells), d \in SeqsUpTo(InfoValues, MaxCells) }

\* the Information fields of a new Resolution; only a non-empty value is ever
\* assigned, so the empty value stands for a field that was never set
NoInformation ==
    [checked |-> FALSE, warned |-> FALSE, department |-> <<>>, category |-> <<>>,
     functions |-> <<>>, sponsors |-> <<>>]

\* the body of the loop for one header cell and its value
SetField(info, header_name, data_value) ==
    IF data_value = <<>> THEN info
    ELSE CASE header_name = "department" -> [info EXCEPT !.department = data_value]
           [] header_name = "category" -> [info EXCEPT !.category = data_value]
           [] header_name = "functions" -> [info EXCEPT !.functions = PySplit(data_value)]
           [] header_name = "sponsors" -> [info EXCEPT !.sponsors = <<>>]
           [] OTHER -> info

InitInformation ==
    /\ call \in {[fn |-> "information", arg |-> t] : t \in InformationTables}
    /\ result = [done |-> FALSE, value |-> NoInformation]
    /\ HelperStart

\* if len(table_headers) != len(table_data): print(...)
GetResolution_CheckInformation ==
    /\ call.fn = "information"
    /\ ~result.done
    /\ ~result.value.checked
    /\ result' = [result EXCEPT !.value.checked = TRUE,
                                !.value.warned = (Len(call.arg.headers) # Len(call.arg.data))]
    /\ UNCHANGED <<config, run, pc, loopstate, store, caches, source, locals, exc,
                   reported, crashed, ghosts, first_run_db, call>>

\* one iteration of for index in range(len(table_headers)) with a value cell
GetResolution_InformationCell ==
    /\ call.fn = "information"
    /\ ~result.done
    /\ result.value.checked
    /\ index < Len(call.arg.headers)
    /\ index < Len(call.arg.data)
    /\ result' = [result EXCEPT !.value = SetField(@, HeaderName(call.arg.headers[index + 1]),
                                                   call.arg.data[index + 1])]
    /\ index' = index + 1
    /\ UNCHANGED <<config, run, pc, loopstate, store, caches, source, doc, resolution,
                   voting_entry, must_refresh_people, must_refresh_vote_types, exc,
                   reported, crashed, ghosts, first_run_db, call>>

\* table_data[index] past the last value cell raises IndexError
GetResolution_InformationIndexError ==
    /\ call.fn = "information"
    /\ ~result.done
    /\ result.value.checked
    /\ index < Len(call.arg.headers)
    /\ index >= Len(call.arg.data)
    /\ result' = [result EXCEPT !.done = TRUE]
    /\ Raise("IndexError")
    /\ UNCHANGED <<config, run, loopstate, store, caches, source, reported, crashed,
                   ghosts, first_run_db, call>>

\* the loop ran over every header cell
GetResolution_InformationDone ==
    /\ call.fn = "information"
    /\ ~result.done
    /\ result.value.checked
    /\ index = Len(call.arg.headers)
    /\ result' = [result EXCEPT !.done = TRUE]
    /\ UNCHANGED <<config, run, pc, loopstate, store, caches, source, locals, exc,
                   reported, crashed, ghosts, first_run_db, call>>

NextInformation ==
    \/ GetResolution_CheckInformation
    \/ GetResolution_InformationCell
    \/ GetResolution_InformationIndexError
    \/ GetResolution_InformationDone

SpecInformation == InitInformation /\ [][NextInformation]_vars

----------------------------------------------------------------------------
(* Claims *)

Occurrences(seq, x) == Cardinality({i \in DOMAIN seq : seq[i] = x})

\* how often a name has been created in a table: its rows plus the pending adds
Created(rows, pending, n) ==
    Cardinality({r \in rows : r.name = n}) + Occurrences(pending, n)

\* C1: identity uniqueness.  Each distinct person name and each distinct
\* vote-type label is created at most once (as a row or as an object added to
\* the session), also when a previously unseen voter occurs more than once in
\* one vote record.
C1_IdentityUniqueness ==
    /\ \A n \in NamesOf(tx.people) \cup Range(session.people) :
          Created(tx.people, session.people, n) <= 1
    /\ \A n \in NamesOf(tx.voteTypes) \cup Range(session.vote_types) :
          Created(tx.voteTypes, session.vote_types, n) <= 1

\* ids a vote refers to
VotePersonIds(vote) ==
    {vote.mover_id} \cup {vote.person_votes[i].person_id : i \in DOMAIN vote.person_votes}
VoteTypeIds(vote) ==
    {vote.person_votes[i].vote_type_id : i \in DOMAIN vote.person_votes}

\* C2: no dangling reference.  When get_resolution builds the PersonVote and
\* ResolutionVote records of a vote record, no identity is pending (every
\* created Person / VoteType has been flushed and the cache refreshed), every
\* name the record uses is in the cache, and every id stored in a built record
\* is the id of a row of the people / voteTypes table.
C2_NoDanglingReference ==
    /\ pc = "build" =>
          /\ session.people = <<>> /\ session.vote_types = <<>>
          /\ \A n \in Range(AllVoters(voting_entry.custom_vote_types))
                      \cup {voting_entry.mover} :
                n \in DOMAIN people_name_to_id
                /\ people_name_to_id[n] \in IdsOf(tx.people)
          /\ \A i \in DOMAIN voting_entry.custom_vote_types :
                LET k == voting_entry.custom_vote_types[i].key
                IN  k \in DOMAIN custom_vote_type_name_to_id
                    /\ custom_vote_type_name_to_id[k] \in IdsOf(tx.voteTypes)
    /\ \A k \in DOMAIN resolution.votes :
          /\ VotePersonIds(resolution.votes[k]) \subseteq IdsOf(tx.people)
          /\ VoteTypeIds(resolution.votes[k]) \subseteq IdsOf(tx.voteTypes)

\* C2 witness: a vote has just been built for a record in which the mover or a
\* voter, and a vote type, were first seen
C2_Witness ==
    /\ pc = "record"
    /\ resolution.votes # <<>>
    /\ must_refresh_people
    /\ must_refresh_vote_types
    /\ resolution.votes[Len(resolution.votes)].person_votes # <<>>

\* C3: one vote per person.  No two PersonVote records of one ResolutionVote
\* built by get_resolution share a person_id.
C3_OneVotePerPerson ==
    \A k \in DOMAIN resolution.votes : VoteKeysUnique(resolution.votes[k])

HasErrPhrase(text) == text \cap Range(ERR_RES) # {}

\* C4 as stated: in the second run every id of the range is skipped, the ids
\* the first run found to be error pages included (none of them is fetched).
C4_SecondRunOnlySkips ==
    run = 2 => \A id \in fetched : ~HasErrPhrase(source[id].text)

\* C4 amended: in the second run every id whose Resolution the first run
\* persisted is skipped (no fetch, no staging); error-page ids may be fetched
\* again but are never staged; and when the second run ends the store content
\* is identical to what the first run left.
C4_IdempotentResume ==
    run = 2 =>
       /\ (fetched \cup staged) \cap IdsOf(first_run_db.resolutions) = {}
       /\ \A id \in staged : ~HasErrPhrase(source[id].text)
       /\ pc = "done" => db = first_run_db

\* C4 witness: the second run has ended with the store unchanged, having
\* skipped an id the first run persisted with its votes and fetched an error page
C4_Witness ==
    /\ run = 2
    /\ pc = "done"
    /\ db = first_run_db
    /\ \E id \in attempted \ fetched :
          \E r \in db.resolutions : r.id = id /\ r.votes # <<>>
    /\ \E id \in fetched : HasErrPhrase(source[id].text)

\* C5: not-found handling.  When the document fetched for the current id
\* contains a known error phrase, the step that handles it returns to the loop
\* (next id) without parsing anything, adds nothing to the session or the
\* store, leaves both identity caches unchanged, stages nothing and raises
\* nothing.
C5_NotFoundHandling ==
    [][(pc = "fetch" /\ resolution_id \in DOMAIN source
          /\ HasErrPhrase(source[resolution_id].text))
       => /\ pc' = "loop"
          /\ UNCHANGED <<db, tx, session, people_name_to_id,
                         custom_vote_type_name_to_id, staged, exc, reported, cursor,
                         doc, resolution>>]_vars

\* C5 witness: an "Access Denied" page has been handled and the loop is about
\* to yield the next id of the range
C5_Witness ==
    /\ pc = "loop"
    /\ resolution_id \in fetched \cap DOMAIN source
    /\ ERR_RES[2] \in source[resolution_id].text
    /\ cursor < config.stop

\* C6: pairing invariant.  Every aggregate get_resolution returns for a document
\* with a Meeting History section (and every aggregate staged or stored) has as
\* many ResolutionMeeting entries as ResolutionVote entries, one pair per
\* vote-record table, whatever the number of header rows; and between two
\* iterations of the record loop both counts equal the number of vote records
\* consumed so far.
C6_PairingInvariant ==
    /\ (pc = "stage" /\ doc.meeting_history) =>
          /\ resolution.meetings = Len(resolution.votes)
          /\ Len(resolution.votes) = Len(doc.voting_records)
    /\ pc = "record" =>
          /\ resolution.meetings = index
          /\ Len(resolution.votes) = index
    /\ \A r \in Range(session.resolutions) \cup tx.resolutions :
          r.meetings = Len(r.votes)

\* C6 witness: a document with more header rows than vote records was parsed
\* to the end and its aggregate, holding a vote, is returned
C6_Witness ==
    /\ pc = "stage"
    /\ doc.meeting_history
    /\ doc.header_rows > Len(doc.voting_records)
    /\ resolution.votes # <<>>

\* C7: the final commit persists what was staged.  However the loop ended, once
\* main is done every aggregate staged in the run is in the store.
C7_FinalCommitPersistsStaged ==
    pc = "done" => staged \subseteq IdsOf(db.resolutions)

ParseErrors == {"Exception", "KeyError", "IndexError"}

\* C8 as stated: after a structural parse error of one id, the later ids of the
\* range are still attempted.
C8_LaterIdsAttempted ==
    (pc = "done" /\ exc \in ParseErrors) => RangeIds(config) \subseteq attempted

\* C8 amended: a structural parse error raised by get_resolution ends the
\* crawl loop: the controller reports the failing id, attempts no id after it
\* and goes to the final commit.
C8_FailureStopsCrawl ==
    exc \in ParseErrors =>
       /\ pc \in {"except", "finally", "done"}
       /\ \A id \in attempted : id <= resolution_id
       /\ pc \in {"finally", "done"} => reported = resolution_id

\* C8 witness: main is done after a parse error on an id that was not the last
\* of the range
C8_Witness ==
    /\ pc = "done"
    /\ exc \in ParseErrors
    /\ reported = resolution_id
    /\ cursor < config.stop

\* C9: commit cadence.  The number of ids the loop has visited since the last
\* commit never exceeds the cadence N = 1000.
C9_CommitCadence == since_commit <= COMMIT_EVERY

\* C10: cache/store agreement.  Whenever get_resolution builds a record, and
\* whenever it has ended by returning or by raising, each identity cache equals
\* the name-to-id mapping of its table.
C10_CacheStoreAgreement ==
    (pc \in {"build", "stage"} \/ (pc = "except" /\ resolution_id \in fetched)) =>
       /\ people_name_to_id = NameToId(tx.people)
       /\ custom_vote_type_name_to_id = NameToId(tx.voteTypes)

\* the tokens joined with ", "
RECURSIVE Joined(_)
Joined(tokens) ==
    IF tokens = <<>> THEN <<>>
    ELSE IF Len(tokens) = 1 THEN tokens[1]
    ELSE tokens[1] \o <<",", " ">> \o Joined(Tail(tokens))

\* C11: custom buckets.  The bucket of a custom row is the ordered list of
\* voter names that, joined with ", ", give the value, and an empty value
\* yields the empty list (no voter name).
C11_CustomBuckets ==
    (call.fn = "split" /\ result.done) =>
       /\ Joined(result.value) = call.arg
       /\ call.arg = <<>> => result.value = <<>>

\* C12: Information table mismatch is non-fatal. Whenever the parse of the
\* Information table has ended on a table whose header-cell count and
\* value-cell count differ, in either direction, the warning was flagged and
\* no exception was raised.
C12_MismatchNonFatal ==
    (call.fn = "information" /\ result.done
        /\ Len(call.arg.headers) # Len(call.arg.data)) =>
       /\ result.value.warned
       /\ exc = "none"

====
